---- MODULE Spec2Model ----
(***************************************************************************)
(* Pingr ML insights: the batch pipeline (alert_log.jsonl ->               *)
(* pingr_cleaned_data.csv) and the dashboard scripts that read the CSV.    *)
(*                                                                         *)
(* Text is a sequence of tokens.  A token is one character of the text     *)
(* ("," "\n" "\"" "." and the digits) or a word: a run of characters       *)
(* holding none of those ("BTC", "True", "alert_sent").  Numbers are       *)
(* fixed point with one decimal: the integer 15 is the number 1.5.         *)
(***************************************************************************)
EXTENDS Integers, Sequences, FiniteSets, TLC

VARIABLES
    logFile,    \* alert_log.jsonl: [exists, lines]
    artifact,   \* pingr_cleaned_data.csv: [exists, text]
    raw,        \* main(): the list load_jsonl returned in the last run
    pyOut,      \* main(): how the last run ended
    uploads,    \* number of logs uploaded so far
    variant,    \* the dashboard script the page runs (0: no page open)
    pc,         \* buildDashboard: "idle", "loadCSV", "momentum", "done", "failed"
    status,     \* #status innerText
    rows,       \* buildDashboard: what loadCSV returned
    data,       \* buildDashboard: the items after "Convert types"
    scores,     \* buildDashboard: the scores of the alerts, by symbol
    ranked,     \* buildDashboard: the top coins
    topCoins,   \* #topCoins innerHTML
    panels      \* #scoreStats, #rsiStats, #heatStats, #momentumSummary

pyVars == <<logFile, artifact, raw, pyOut, uploads>>
jsVars == <<variant, pc, status, rows, data, scores, ranked, topCoins, panels>>
vars == <<logFile, artifact, raw, pyOut, uploads,
          variant, pc, status, rows, data, scores, ranked, topCoins, panels>>

(* ------------------------------ bounds -------------------------------- *)
MaxLines == 2          \* lines of a log made of every choice of LineSet
MaxBulkLines == 14     \* lines of a log of the bulk family
MaxReplaceLines == 1   \* lines of a log that replaces an earlier log
MaxUploads == 2        \* logs uploaded, one after the other

(* --------------------------- JSON values ------------------------------ *)
\* One shape for every value of a record: k is the kind.
NaN == [k |-> "nan", v |-> 0, s |-> <<>>]
JNum(n) == [k |-> "num", v |-> n, s |-> <<>>]
JStr(t) == [k |-> "str", v |-> 0, s |-> t]
JBool(b) == [k |-> "bool", v |-> IF b THEN 1 ELSE 0, s |-> <<>>]

Columns == <<"timestamp", "symbol", "signal_score", "rsi_15m", "heat_index", "alert_sent">>

(* ------------------------------- text --------------------------------- *)
COMMA == ","
NL == "\n"
QUOTE == "\""
DOT == "."
DigitChars == <<"0", "1", "2", "3", "4", "5", "6", "7", "8", "9">>
IsDigit(c) == \E d \in 1..10 : DigitChars[d] = c
DigitVal(c) == (CHOOSE d \in 1..10 : DigitChars[d] = c) - 1

RECURSIVE LeadDigits(_)
\* How many tokens at the start of t are digits.
LeadDigits(t) ==
    IF t # <<>> /\ IsDigit(Head(t)) THEN 1 + LeadDigits(Tail(t)) ELSE 0

RECURSIVE IntOf(_, _)
\* The value of the first n tokens of t, all digits.
IntOf(t, n) == IF n = 0 THEN 0 ELSE 10 * IntOf(t, n - 1) + DigitVal(t[n])

RECURSIVE Digits(_)
\* str() of a non-negative integer.
Digits(n) == IF n < 10 THEN <<DigitChars[n + 1]>>
             ELSE Digits(n \div 10) \o <<DigitChars[(n % 10) + 1]>>

\* repr() of a float64, as pandas writes a float column: 1.5, 3.0, 10.0.
FormatFloat(v) == Digits(v \div 10) \o <<DOT>> \o <<DigitChars[(v % 10) + 1]>>

\* float(s) as pd.to_numeric applies it to a string: the whole string must be
\* a number, or the value is coerced to NaN.
StrictFloat(s) ==
    LET n == LeadDigits(s) IN
    IF n = 0 THEN NaN
    ELSE IF Len(s) = n THEN JNum(10 * IntOf(s, n))
    ELSE IF Len(s) = n + 1 /\ s[n + 1] = DOT THEN JNum(10 * IntOf(s, n))
    ELSE IF Len(s) = n + 2 /\ s[n + 1] = DOT /\ IsDigit(s[n + 2])
         THEN JNum(10 * IntOf(s, n) + DigitVal(s[n + 2]))
    ELSE NaN

(* ------------------------- process_logs.py ---------------------------- *)
\* A line of the log: ok says whether json.loads accepts it, rec is the object
\* it holds (a key the object lacks has the value NaN, as in the DataFrame).
NoRec == [c \in {Columns[i] : i \in 1..Len(Columns)} |-> NaN]
BadLine == [ok |-> FALSE, rec |-> NoRec]

RECURSIVE load_jsonl_skip_rest(_)
\* load_jsonl with the except clause leaving the loop.
load_jsonl_skip_rest(lines) ==
    IF lines = <<>> THEN <<>>
    ELSE IF Head(lines).ok
         THEN <<Head(lines).rec>> \o load_jsonl_skip_rest(Tail(lines))
         ELSE <<>>

RECURSIVE load_jsonl(_)
load_jsonl(lines) ==
    IF lines = <<>> THEN <<>>
    ELSE IF Head(lines).ok
         THEN <<Head(lines).rec>> \o load_jsonl(Tail(lines))
         ELSE load_jsonl(Tail(lines))

\* pd.DataFrame(raw) has a column for every key some record has.
HasColumn(rs, c) == \E i \in 1..Len(rs) : rs[i][c].k # "nan"

ValidTimestamps == {<<"2025-01-01 00:00:00">>}
\* pd.to_datetime(errors="coerce")
to_datetime(x) == IF x.k = "str" /\ x.s \in ValidTimestamps THEN x ELSE NaN

\* pd.to_numeric(errors="coerce")
to_numeric(x) ==
    CASE x.k = "num" -> x
      [] x.k = "str" -> StrictFloat(x.s)
      [] x.k = "bool" -> JNum(10 * x.v)
      [] OTHER -> NaN

\* main(), section 2: the cleaned DataFrame.
CleanRow(r) ==
    [r EXCEPT !["timestamp"] = to_datetime(r["timestamp"]),
              !["rsi_15m"] = to_numeric(r["rsi_15m"]),
              !["signal_score"] = to_numeric(r["signal_score"]),
              !["heat_index"] = to_numeric(r["heat_index"])]
CleanData(rs) == [i \in 1..Len(rs) |-> CleanRow(rs[i])]

\* csv.QUOTE_MINIMAL: a field holding the delimiter, the quote character or
\* a line break is written between quotes, its quotes doubled.
NeedsQuote(s) == \E i \in 1..Len(s) : s[i] \in {COMMA, QUOTE, NL}
RECURSIVE DoubleQuotes(_)
DoubleQuotes(s) ==
    IF s = <<>> THEN <<>>
    ELSE (IF Head(s) = QUOTE THEN <<QUOTE, QUOTE>> ELSE <<Head(s)>>)
         \o DoubleQuotes(Tail(s))
CsvField(s) == IF NeedsQuote(s) THEN <<QUOTE>> \o DoubleQuotes(s) \o <<QUOTE>> ELSE s

\* One cell of DataFrame.to_csv: NaN and NaT are empty, a bool is True or False.
CsvCell(x) ==
    CASE x.k = "num" -> FormatFloat(x.v)
      [] x.k = "str" -> CsvField(x.s)
      [] x.k = "bool" -> IF x.v = 1 THEN <<"True">> ELSE <<"False">>
      [] OTHER -> <<>>

RECURSIVE JoinCells(_)
JoinCells(cells) ==
    IF cells = <<>> THEN <<>>
    ELSE IF Len(cells) = 1 THEN cells[1]
    ELSE cells[1] \o <<COMMA>> \o JoinCells(Tail(cells))

\* The columns of the cleaned DataFrame: those of the records, and the four
\* main() assigns.
CsvColumns(rs) ==
    SelectSeq(Columns, LAMBDA c : c # "symbol" \/ HasColumn(rs, c))

RECURSIVE CsvLines(_, _)
CsvLines(df, cols) ==
    IF df = <<>> THEN <<>>
    ELSE JoinCells([j \in 1..Len(cols) |-> CsvCell(df[1][cols[j]])]) \o <<NL>>
         \o CsvLines(Tail(df), cols)

\* df.to_csv("pingr_cleaned_data.csv", index=False)
to_csv(df, cols) ==
    JoinCells([j \in 1..Len(cols) |-> <<cols[j]>>]) \o <<NL>> \o CsvLines(df, cols)

NoFile == [exists |-> FALSE, content |-> <<>>]
File(c) == [exists |-> TRUE, content |-> c]

(* ------------------------- JavaScript values -------------------------- *)
\* A number n/(10 d), or NaN, Infinity, -Infinity, null.
JsNum(n, d) == [k |-> "num", n |-> n, d |-> d]
JsNaN == [k |-> "NaN", n |-> 0, d |-> 1]
PosInf == [k |-> "Infinity", n |-> 0, d |-> 1]
NegInf == [k |-> "-Infinity", n |-> 0, d |-> 1]
JsNull == [k |-> "null", n |-> 0, d |-> 1]
NotConverted == [k |-> "string", n |-> 0, d |-> 1]

\* A cell of a row: a string, or undefined (the row has no such cell).
Str(t) == [def |-> TRUE, t |-> t]
Undefined == [def |-> FALSE, t |-> <<>>]

\* parseFloat: the longest numeric prefix of the string, NaN if there is none.
parseFloat(c) ==
    LET t == c.t
        n == LeadDigits(t)
    IN  IF ~c.def THEN JsNaN
        ELSE IF n = 0
             THEN IF Len(t) >= 2 /\ t[1] = DOT /\ IsDigit(t[2])
                  THEN JsNum(DigitVal(t[2]), 1) ELSE JsNaN
        ELSE JsNum(10 * IntOf(t, n)
                   + (IF Len(t) >= n + 2 /\ t[n + 1] = DOT /\ IsDigit(t[n + 2])
                      THEN DigitVal(t[n + 2]) ELSE 0), 1)

Falsy(x) == x.k \in {"NaN", "null"} \/ (x.k = "num" /\ x.n = 0)
\* x || 0 and x || null
OrZero(x) == IF Falsy(x) THEN JsNum(0, 1) ELSE x
OrNull(x) == IF Falsy(x) THEN JsNull ELSE x

\* a < b for two numbers
NumLt(a, b) == a.n * b.d < b.n * a.d

\* x.toFixed(2): the nearest number of hundredths, the larger of two as near.
toFixed2(x) ==
    IF x.k = "num" THEN JsNum((20 * x.n + x.d) \div (2 * x.d), 10) ELSE x

RECURSIVE Sum(_)
\* arr.reduce((a, b) => a + b, 0) over numbers of denominator 1
Sum(arr) == IF arr = <<>> THEN 0 ELSE Head(arr).n + Sum(Tail(arr))

\* arr.reduce(...) / arr.length: 0 / 0 is NaN
Mean(arr) == IF arr = <<>> THEN JsNaN ELSE JsNum(Sum(arr), Len(arr))

\* Math.min(...arr) and Math.max(...arr): Infinity and -Infinity of no arguments
MathMin(arr) ==
    IF arr = <<>> THEN PosInf
    ELSE arr[CHOOSE i \in 1..Len(arr) : \A j \in 1..Len(arr) : ~NumLt(arr[j], arr[i])]
MathMax(arr) ==
    IF arr = <<>> THEN NegInf
    ELSE arr[CHOOSE i \in 1..Len(arr) : \A j \in 1..Len(arr) : ~NumLt(arr[i], arr[j])]

(* ------------------------- text of the CSV ---------------------------- *)
RECURSIVE Split(_, _)
\* text.split(sep): always at least one part
Split(t, sep) ==
    IF \A i \in 1..Len(t) : t[i] # sep THEN <<t>>
    ELSE LET i == CHOOSE i \in 1..Len(t) :
                      t[i] = sep /\ \A j \in 1..(i - 1) : t[j] # sep
         IN  <<SubSeq(t, 1, i - 1)>> \o Split(SubSeq(t, i + 1, Len(t)), sep)

RECURSIVE TrimLeft(_)
TrimLeft(t) == IF t # <<>> /\ Head(t) = NL THEN TrimLeft(Tail(t)) ELSE t
RECURSIVE TrimRight(_)
TrimRight(t) ==
    IF t # <<>> /\ t[Len(t)] = NL THEN TrimRight(SubSeq(t, 1, Len(t) - 1)) ELSE t
\* text.trim(): the line breaks are the only white space of the model's texts
Trim(t) == TrimRight(TrimLeft(t))

(* ---------------------- the dashboard scripts ------------------------- *)
\* The five buildDashboard scripts:
\*   1  docs/app.js 1-145     multi-stats, debug
\*   2  docs/app.js 147-223   top coins, "No alerts yet."
\*   3  docs/app.js 225-329   top coins, debug
\*   4  docs/app.js 331-393   dark mode engine
\*   5  the full version with momentum (unnamed/part_000)
Variants == 1..5
TopN == 10

ChecksOk(v) == v # 4          \* if (!res.ok) ... return null
Trims(v) == v # 4             \* text.trim()
ChecksRowLength(v) == v # 4   \* if (r.length !== header.length) return
GuardsNoAlerts(v) == v \in {2, 3}   \* if (alerts.length === 0) ... return
HasStats(v) == v \in {1, 5}
ConvertsRsiHeat(v) == v \in {1, 5}

\* The strings the script takes for alert_sent = true.
AlertLiterals(v) ==
    CASE v = 2 -> {<<"True">>, <<"TRUE">>, <<"true">>}
      [] v = 4 -> {<<"True">>}
      [] OTHER -> {<<"True">>, <<"true">>}

\* The texts written to #status.
StatusLoading == [v \in Variants |->
    IF v \in {1, 3} THEN "Loading... (Debug ON)" ELSE "Loading..."]
StatusNotOk == [v \in Variants |->
    CASE v = 1 -> "CSV missing. Run workflow."
      [] v = 2 -> "No d found. Run ML script first."
      [] v = 3 -> "CSV not found in /docs. Run ML workflow."
      [] v = 4 -> "(res.ok is not looked at)"
      [] v = 5 -> "CSV not found. Run ML workflow."]
StatusCatch == [v \in Variants |->
    CASE v = 1 -> "Load error."
      [] v \in {2, 4} -> "Unable to load data."
      [] OTHER -> "Unable to load CSV."]
StatusNoAlerts == [v \in Variants |->
    CASE v = 2 -> "Ready"
      [] v = 3 -> "Loaded (but no alerts)"
      [] OTHER -> "(no such branch)"]
StatusLoaded == [v \in Variants |->
    IF v = 4 THEN "Data Loaded" ELSE "Dashboard Loaded"]

\* What the server sends for a file it does not have.
NotFoundBody == <<"<h1>404</h1>">>

\* loadCSV, after the fetch has answered: the rows, or no rows (null).
SplitRows(v, text) ==
    LET lines == Split(IF Trims(v) THEN Trim(text) ELSE text, NL)
    IN  [i \in 1..Len(lines) |-> Split(lines[i], COMMA)]
loadCSV(v, file) ==
    IF ChecksOk(v) /\ ~file.exists THEN [null |-> TRUE, rows |-> <<>>]
    ELSE [null |-> FALSE,
          rows |-> SplitRows(v, IF file.exists THEN file.content ELSE NotFoundBody)]

\* obj[h] = r[i] for every header cell: the last cell wins for a repeated
\* name, and a cell the row lacks is undefined.
Obj(header, r) ==
    [h \in {header[j] : j \in 1..Len(header)} |->
        LET j == CHOOSE j \in 1..Len(header) :
                     header[j] = h /\ \A m \in (j + 1)..Len(header) : header[m] # h
        IN  IF j <= Len(r) THEN Str(r[j]) ELSE Undefined]
Get(obj, name) == IF <<name>> \in DOMAIN obj THEN obj[<<name>>] ELSE Undefined

parseCSV(v, header, rs) ==
    LET kept == IF ChecksRowLength(v)
                THEN SelectSeq(rs, LAMBDA r : Len(r) = Len(header))
                ELSE rs
    IN  [i \in 1..Len(kept) |-> Obj(header, kept[i])]

\* "Convert types": one item of data after the forEach.
ConvertAlert(v, c) == c.def /\ c.t \in AlertLiterals(v)
ConvertScore(c) == OrZero(parseFloat(c))
ConvertNullable(c) == OrNull(parseFloat(c))
Convert(v, obj) ==
    [symbol |-> Get(obj, "symbol"),
     alert_sent |-> ConvertAlert(v, Get(obj, "alert_sent")),
     signal_score |-> ConvertScore(Get(obj, "signal_score")),
     rsi_15m |-> IF ConvertsRsiHeat(v) THEN ConvertNullable(Get(obj, "rsi_15m"))
                 ELSE NotConverted,
     heat_index |-> IF ConvertsRsiHeat(v) THEN ConvertNullable(Get(obj, "heat_index"))
                    ELSE NotConverted]

Items(v, rs) == parseCSV(v, rs[1], Tail(rs))
Data(v, rs) == LET items == Items(v, rs)
                 IN  [i \in 1..Len(items) |-> Convert(v, items[i])]
Alerts(d) == SelectSeq(d, LAMBDA x : x.alert_sent)

\* The property name a symbol becomes: String(undefined) is "undefined".
Key(c) == IF c.def THEN c.t ELSE <<"undefined">>

\* if (!scores[a.symbol]) scores[a.symbol] = []; scores[a.symbol].push(...)
\* scores is kept in the order Object.entries lists it: first insertion.
PushScore_reset(sc, a) ==
    IF \E i \in 1..Len(sc) : sc[i].sym = Key(a.symbol)
    THEN LET i == CHOOSE i \in 1..Len(sc) : sc[i].sym = Key(a.symbol)
         IN  [sc EXCEPT ![i].arr = <<a.signal_score>>]
    ELSE Append(sc, [sym |-> Key(a.symbol), arr |-> <<a.signal_score>>])
PushScore(sc, a) ==
    IF \E i \in 1..Len(sc) : sc[i].sym = Key(a.symbol)
    THEN LET i == CHOOSE i \in 1..Len(sc) : sc[i].sym = Key(a.symbol)
         IN  [sc EXCEPT ![i].arr = Append(@, a.signal_score)]
    ELSE Append(sc, [sym |-> Key(a.symbol), arr |-> <<a.signal_score>>])

RECURSIVE GroupFrom(_, _)
GroupFrom(sc, alerts) ==
    IF alerts = <<>> THEN sc
    ELSE GroupFrom(PushScore(sc, Head(alerts)), Tail(alerts))
Scores(alerts) == GroupFrom(<<>>, alerts)

\* .map(([sym, arr]) => ({ sym, avg: arr.reduce(...) / arr.length }))
Averages(sc) ==
    [i \in 1..Len(sc) |-> [sym |-> sc[i].sym, avg |-> Mean(sc[i].arr)]]

\* .sort((a, b) => b.avg - a.avg): a stable sort, the larger avg first
InsertRanked_ascending(sorted, x) ==
    LET before == {i \in 1..Len(sorted) : ~NumLt(x.avg, sorted[i].avg)}
        n == Cardinality({i \in 1..Len(sorted) : \A j \in 1..i : j \in before})
    IN  SubSeq(sorted, 1, n) \o <<x>> \o SubSeq(sorted, n + 1, Len(sorted))
InsertRanked(sorted, x) ==
    LET before == {i \in 1..Len(sorted) : ~NumLt(sorted[i].avg, x.avg)}
        n == Cardinality({i \in 1..Len(sorted) : \A j \in 1..i : j \in before})
    IN  SubSeq(sorted, 1, n) \o <<x>> \o SubSeq(sorted, n + 1, Len(sorted))
RECURSIVE SortFrom(_, _)
SortFrom(sorted, rest) ==
    IF rest = <<>> THEN sorted
    ELSE SortFrom(InsertRanked(sorted, Head(rest)), Tail(rest))
SortByAvg(entries) == SortFrom(<<>>, entries)

\* .slice(0, 10)
Slice(s) == SubSeq(s, 1, IF Len(s) < TopN THEN Len(s) ELSE TopN)

Ranked(sc) == Slice(SortByAvg(Averages(sc)))

\* ranked.map(r => `<div class="item">...${r.sym}...${r.avg.toFixed(2)}...`)
InitialHtml == [k |-> "initial", items |-> <<>>]
NoAlertsHtml == [k |-> "no alerts", items |-> <<>>]
ItemsHtml(rk) ==
    [k |-> "items",
     items |-> [i \in 1..Len(rk) |-> [sym |-> rk[i].sym, avg |-> toFixed2(rk[i].avg)]]]

\* A stat-box: the numbers it shows (NotShown: the box has no such line).
NotShown == [k |-> "not shown", n |-> 0, d |-> 1]
NoPanel == [shown |-> FALSE, avg |-> NotShown, min |-> NotShown, max |-> NotShown]
Panel(avg, min, max) == [shown |-> TRUE, avg |-> avg, min |-> min, max |-> max]
NoPanels == [score |-> NoPanel, rsi |-> NoPanel, heat |-> NoPanel, momentum |-> NoPanel]

Column(items, c) == [i \in 1..Len(items) |-> items[i][c]]
NonNull(vals) == SelectSeq(vals, LAMBDA x : x # JsNull)

\* Sections 2 to 4 of scripts 1 and 5.
StatPanels(v, d) ==
    LET al == Alerts(d)
        scoreVals == Column(IF v = 1 THEN d ELSE al, "signal_score")
        rsiVals == NonNull(Column(al, "rsi_15m"))
        heatVals == NonNull(Column(IF v = 1 THEN d ELSE al, "heat_index"))
    IN  [score |-> IF v = 1
                   THEN Panel(toFixed2(Mean(scoreVals)), MathMin(scoreVals),
                              MathMax(scoreVals))
                   ELSE Panel(toFixed2(Mean(scoreVals)), toFixed2(MathMin(scoreVals)),
                              toFixed2(MathMax(scoreVals))),
         rsi |-> IF v = 1
                 THEN Panel(toFixed2(Mean(rsiVals)), MathMin(rsiVals), MathMax(rsiVals))
                 ELSE Panel(toFixed2(Mean(rsiVals)), toFixed2(MathMin(rsiVals)),
                            toFixed2(MathMax(rsiVals))),
         heat |-> IF v = 1
                  THEN Panel(toFixed2(Mean(heatVals)), NotShown, MathMax(heatVals))
                  ELSE Panel(toFixed2(Mean(heatVals)), toFixed2(MathMin(heatVals)),
                             toFixed2(MathMax(heatVals))),
         momentum |-> NoPanel]

(* ------------------------------ inputs -------------------------------- *)
Stamp == JStr(<<"2025-01-01 00:00:00">>)
Rec(ts, sym, score, rsi, heat, alert) ==
    [ok |-> TRUE,
     rec |-> [timestamp |-> ts, symbol |-> sym, signal_score |-> score,
              rsi_15m |-> rsi, heat_index |-> heat, alert_sent |-> alert]]

\* The lines a small log is made of.
LineSet ==
    { BadLine,
      Rec(Stamp, JStr(<<"BTC">>), JNum(10), JNum(300), JNum(50), JBool(TRUE)),
      Rec(Stamp, JStr(<<"BTC">>), JNum(30), JNum(0), NaN, JStr(<<"True">>)),
      Rec(Stamp, JStr(<<"ETH">>), NaN, JStr(<<"abc">>), JNum(20), JStr(<<"TRUE">>)),
      Rec(Stamp, JStr(<<"A", COMMA, "B">>), JNum(20), NaN, NaN, JStr(<<"true">>)),
      Rec(JStr(<<"yesterday">>), JStr(<<"ETH">>), JStr(<<"2", DOT, "5">>), JNum(700),
          JNum(0), JStr(<<"false">>)),
      Rec(NaN, JStr(<<"ETH">>), JNum(10), NaN, NaN, NaN) }

RECURSIVE SeqsUpTo(_, _)
\* The sequences over S of length at most n.
SeqsUpTo(S, n) ==
    IF n = 0 THEN {<<>>}
    ELSE LET shorter == SeqsUpTo(S, n - 1)
         IN  shorter \cup {Append(q, x) : q \in shorter, x \in S}
LogSet == SeqsUpTo(LineSet, MaxLines)

\* The bulk family: longer logs, enough symbols to fill the top ten and more.
\* Line i of the log of p is drawn from x = i * p.a + p.b: it is malformed
\* when 11 divides x, its symbol is one of the first p.syms names, and its
\* score is x modulo p.m.
SymbolNames == <<"S01", "S02", "S03", "S04", "S05", "S06", "S07", "S08", "S09",
                 "S10", "S11", "S12", "S13">>
BulkParams == [a : {1, 2, 3}, b : {0, 1, 2}, m : {2, 3, 4}, syms : {4, Len(SymbolNames)}]
BulkLine(i, p) ==
    LET x == i * p.a + p.b IN
    IF x % 11 = 0 THEN BadLine
    ELSE Rec(Stamp, JStr(<<SymbolNames[((i - 1) % p.syms) + 1]>>), JNum(10 * (x % p.m)),
             JNum(10 * (x % 3)), NaN,
             IF x % 13 = 5 THEN JStr(<<"false">>) ELSE JBool(TRUE))
BulkLogs == {[i \in 1..n |-> BulkLine(i, p)] : n \in 0..MaxBulkLines, p \in BulkParams}

(* ------------------------------ actions ------------------------------- *)
Init ==
    /\ logFile = NoFile
    /\ artifact = NoFile
    /\ raw = <<>>
    /\ pyOut = "not run"
    /\ uploads = 0
    /\ variant = 0
    /\ pc = "idle"
    /\ status = ""
    /\ rows = <<>>
    /\ data = <<>>
    /\ scores = <<>>
    /\ ranked = <<>>
    /\ topCoins = InitialHtml
    /\ panels = NoPanels

\* Someone puts a log in the repository ("the file you will upload manually").
\* A page reads one whole snapshot of the artifact, so the log changes and the
\* pipeline runs between the page loads.
UploadLog ==
    /\ pc = "idle"
    /\ ~logFile.exists
    /\ \E l \in LogSet \cup BulkLogs : logFile' = File(l)
    /\ uploads' = uploads + 1
    /\ UNCHANGED <<artifact, raw, pyOut>>
    /\ UNCHANGED jsVars

\* The log is replaced by a later one.
ReplaceLog ==
    /\ pc = "idle"
    /\ logFile.exists
    /\ uploads < MaxUploads
    /\ \E l \in SeqsUpTo(LineSet, MaxReplaceLines) : logFile' = File(l)
    /\ uploads' = uploads + 1
    /\ UNCHANGED <<artifact, raw, pyOut>>
    /\ UNCHANGED jsVars

\* main(): alert_log.jsonl is not there.
MainNotFound ==
    /\ pc = "idle"
    /\ ~logFile.exists
    /\ pyOut' = "not found"
    /\ raw' = <<>>
    /\ UNCHANGED <<logFile, artifact, uploads>>
    /\ UNCHANGED jsVars

\* main(): "if not raw: ... return"
MainEmpty ==
    /\ pc = "idle"
    /\ logFile.exists
    /\ load_jsonl(logFile.content) = <<>>
    /\ pyOut' = "empty"
    /\ raw' = <<>>
    /\ UNCHANGED <<logFile, artifact, uploads>>
    /\ UNCHANGED jsVars

\* main(): df["timestamp"] or df["alert_sent"] of a DataFrame with no such
\* column raises KeyError, before the CSV is written.
MainKeyError ==
    /\ pc = "idle"
    /\ logFile.exists
    /\ LET r == load_jsonl(logFile.content)
       IN  /\ r # <<>>
           /\ ~HasColumn(r, "timestamp") \/ ~HasColumn(r, "alert_sent")
           /\ raw' = r
    /\ pyOut' = "KeyError"
    /\ UNCHANGED <<logFile, artifact, uploads>>
    /\ UNCHANGED jsVars

\* main(): the run that reaches "Analysis Complete!"
MainComplete ==
    /\ pc = "idle"
    /\ logFile.exists
    /\ LET r == load_jsonl(logFile.content)
       IN  /\ r # <<>>
           /\ HasColumn(r, "timestamp") /\ HasColumn(r, "alert_sent")
           /\ raw' = r
           /\ artifact' = File(to_csv(CleanData(r), CsvColumns(r)))
    /\ pyOut' = "complete"
    /\ UNCHANGED <<logFile, uploads>>
    /\ UNCHANGED jsVars

\* The page is opened: buildDashboard() up to "await loadCSV()".
OpenPage ==
    /\ pc = "idle"
    /\ \E v \in Variants :
          /\ variant' = v
          /\ status' = StatusLoading[v]
    /\ pc' = "loadCSV"
    /\ UNCHANGED <<rows, data, scores, ranked, topCoins, panels>>
    /\ UNCHANGED pyVars

\* loadCSV: the fetch fails (catch).
CsvRejected ==
    /\ pc = "loadCSV"
    /\ status' = StatusCatch[variant]
    /\ pc' = "done"
    /\ UNCHANGED <<variant, rows, data, scores, ranked, topCoins, panels>>
    /\ UNCHANGED pyVars

\* loadCSV: the answer is not ok, and the script looks at res.ok.
CsvNotOk ==
    /\ pc = "loadCSV"
    /\ loadCSV(variant, artifact).null
    /\ status' = StatusNotOk[variant]
    /\ pc' = "done"
    /\ UNCHANGED <<variant, rows, data, scores, ranked, topCoins, panels>>
    /\ UNCHANGED pyVars

\* buildDashboard, scripts 2 and 3: "if (alerts.length === 0) { ... return; }"
CsvNoAlerts ==
    /\ pc = "loadCSV"
    /\ GuardsNoAlerts(variant)
    /\ LET r == loadCSV(variant, artifact)
       IN  /\ ~r.null
           /\ Alerts(Data(variant, r.rows)) = <<>>
           /\ rows' = r.rows
           /\ data' = Data(variant, r.rows)
    /\ topCoins' = NoAlertsHtml
    /\ status' = StatusNoAlerts[variant]
    /\ pc' = "done"
    /\ UNCHANGED <<variant, scores, ranked, panels>>
    /\ UNCHANGED pyVars

\* buildDashboard from the rows to the end (scripts 2, 3, 4) or to the
\* "await fetch" of the momentum summary (scripts 1, 5).
CsvRendered ==
    /\ pc = "loadCSV"
    /\ LET r == loadCSV(variant, artifact)
           d == Data(variant, r.rows)
           sc == Scores(Alerts(d))
       IN  /\ ~r.null
           /\ ~(GuardsNoAlerts(variant) /\ Alerts(d) = <<>>)
           /\ rows' = r.rows
           /\ data' = d
           /\ scores' = sc
           /\ ranked' = Ranked(sc)
           /\ topCoins' = ItemsHtml(Ranked(sc))
           /\ panels' = IF HasStats(variant) THEN StatPanels(variant, d) ELSE panels
    /\ IF HasStats(variant)
       THEN pc' = "momentum" /\ status' = status
       ELSE pc' = "done" /\ status' = StatusLoaded[variant]
    /\ UNCHANGED variant
    /\ UNCHANGED pyVars

\* Scripts 1 and 5: momentum_advanced_summary.json is fetched and parsed.
MomentumLoaded ==
    /\ pc = "momentum"
    /\ panels' = [panels EXCEPT !.momentum = Panel(NotShown, NotShown, NotShown)]
    /\ status' = StatusLoaded[variant]
    /\ pc' = "done"
    /\ UNCHANGED <<variant, rows, data, scores, ranked, topCoins>>
    /\ UNCHANGED pyVars

\* Scripts 1 and 5: the fetch fails or the body is no JSON: the await throws
\* and nothing catches it.
MomentumFailed ==
    /\ pc = "momentum"
    /\ pc' = "failed"
    /\ UNCHANGED <<variant, status, rows, data, scores, ranked, topCoins, panels>>
    /\ UNCHANGED pyVars

\* The page is closed.
ClosePage ==
    /\ pc \in {"done", "failed"}
    /\ variant' = 0
    /\ pc' = "idle"
    /\ status' = ""
    /\ rows' = <<>>
    /\ data' = <<>>
    /\ scores' = <<>>
    /\ ranked' = <<>>
    /\ topCoins' = InitialHtml
    /\ panels' = NoPanels
    /\ UNCHANGED pyVars

Pipeline == MainNotFound \/ MainEmpty \/ MainKeyError \/ MainComplete
Dashboard ==
    \/ OpenPage \/ CsvRejected \/ CsvNotOk \/ CsvNoAlerts \/ CsvRendered
    \/ MomentumLoaded \/ MomentumFailed \/ ClosePage

Next == UploadLog \/ Pipeline \/ Dashboard

Spec == Init /\ [][Next]_vars

\* The pipeline alone, the log replaced between its runs.
NextRerun == UploadLog \/ ReplaceLog \/ Pipeline
SpecRerun == Init /\ [][NextRerun]_vars

\* The page's event loop: a fetch that is awaited settles, and the code after
\* the await runs (or the promise of buildDashboard is rejected).  Opening and
\* closing the page, uploads and pipeline runs are up to the user.
LoadCsvStep == CsvRejected \/ CsvNotOk \/ CsvNoAlerts \/ CsvRendered
MomentumStep == MomentumLoaded \/ MomentumFailed
SpecLive == Init /\ [][Next]_vars /\ WF_vars(LoadCsvStep) /\ WF_vars(MomentumStep)

(* ------------------------- what the claims use ------------------------ *)
\* The page has the items of the CSV (buildDashboard is past "Convert types").
Converted == pc \in {"momentum", "done", "failed"} /\ rows # <<>>
\* The page has ranked the symbols.
RankedDone == topCoins.k = "items"

NumEq(a, b) == a.n * b.d = b.n * a.d
AlertIndices(d) == {i \in 1..Len(d) : d[i].alert_sent}
AlertKeys(d) == {Key(d[i].symbol) : i \in AlertIndices(d)}
CountOf(d, s) == Cardinality({i \in AlertIndices(d) : Key(d[i].symbol) = s})
RECURSIVE SumUpTo(_, _, _)
\* The sum of signal_score over the alerts of symbol s among the first n items.
SumUpTo(d, s, n) ==
    IF n = 0 THEN 0
    ELSE SumUpTo(d, s, n - 1)
         + (IF d[n].alert_sent /\ Key(d[n].symbol) = s THEN d[n].signal_score.n ELSE 0)
SumOf(d, s) == SumUpTo(d, s, Len(d))
RECURSIVE AlertTotalUpTo(_, _)
AlertTotalUpTo(d, n) ==
    IF n = 0 THEN 0
    ELSE AlertTotalUpTo(d, n - 1) + (IF d[n].alert_sent THEN d[n].signal_score.n ELSE 0)
RECURSIVE WeightedTotal(_, _, _)
\* The sum of mean_score * sample_count over the first n entries of rk.
WeightedTotal(rk, d, n) ==
    IF n = 0 THEN 0
    ELSE WeightedTotal(rk, d, n - 1)
         + (rk[n].avg.n * CountOf(d, rk[n].sym)) \div rk[n].avg.d

\* The index in the log of its j-th line that parses.
ValidIndex(lines, j) ==
    CHOOSE i \in 1..Len(lines) :
        lines[i].ok /\ Cardinality({m \in 1..i : lines[m].ok}) = j
ValidCount(lines) == Cardinality({i \in 1..Len(lines) : lines[i].ok})

(* ------------------------------- C7 ----------------------------------- *)
\* C7: a run that reads the log gets exactly the records of the lines that
\* parse, in log order: as many as there are such lines, the j-th of them the
\* record of the j-th line that parses, whatever malformed lines lie between.
C7_ReaderYieldsValidLines ==
    pyOut \in {"empty", "KeyError", "complete"} =>
        /\ Len(raw) = ValidCount(logFile.content)
        /\ \A j \in 1..Len(raw) :
              raw[j] = logFile.content[ValidIndex(logFile.content, j)].rec

\* A log with a malformed line between two lines that parse has been read.
C7_Witness ==
    /\ pyOut = "complete"
    /\ Len(raw) >= 2
    /\ \E i, j, m \in 1..Len(logFile.content) :
          /\ i < j /\ j < m
          /\ logFile.content[i].ok /\ ~logFile.content[j].ok /\ logFile.content[m].ok

(* ------------------------------- C3 ----------------------------------- *)
\* C3: the ranked output has at most 10 entries, at most one entry per
\* symbol, every entry's mean is at least the next entry's, and no symbol
\* left out has a mean greater than the mean of an entry kept.
C3_RankedTopTen ==
    RankedDone =>
        /\ Len(ranked) <= TopN
        /\ \A i, j \in 1..Len(ranked) : i # j => ranked[i].sym # ranked[j].sym
        /\ \A i \in 1..Len(ranked) : ranked[i].sym \in AlertKeys(data)
        /\ \A i \in 1..(Len(ranked) - 1) : ~NumLt(ranked[i].avg, ranked[i + 1].avg)
        /\ \A s \in AlertKeys(data) :
              (\A i \in 1..Len(ranked) : ranked[i].sym # s) =>
                  \A i \in 1..Len(ranked) :
                      ~NumLt(ranked[i].avg, JsNum(SumOf(data, s), CountOf(data, s)))

\* More than ten symbols have alerts, ten are kept, and the means differ.
C3_Witness ==
    /\ RankedDone
    /\ Cardinality(AlertKeys(data)) > TopN
    /\ Len(ranked) = TopN
    /\ NumLt(ranked[TopN].avg, ranked[1].avg)
    /\ \E s \in AlertKeys(data) :
          /\ \A i \in 1..Len(ranked) : ranked[i].sym # s
          /\ NumLt(JsNum(SumOf(data, s), CountOf(data, s)), ranked[1].avg)

(* ------------------------------- C4 ----------------------------------- *)
\* C4: every alert record is in exactly one group, the group of its symbol;
\* a group's sample_count is the number of the alerts of its symbol and its
\* mean_score their arithmetic mean; so the sum of mean_score * sample_count
\* over the groups is the sum of signal_score over the alerts.  Alerts BTC 1.0
\* and BTC 3.0 alone give the one entry BTC, shown as 2.00, of two samples.
C4_GroupMeans ==
    RankedDone =>
        /\ Len(scores) = Cardinality(AlertKeys(data))
        /\ \A i \in 1..Len(scores) :
              /\ scores[i].sym \in AlertKeys(data)
              /\ Len(scores[i].arr) = CountOf(data, scores[i].sym)
              /\ Sum(scores[i].arr) = SumOf(data, scores[i].sym)
        /\ \A i \in 1..Len(ranked) :
              /\ ranked[i].avg.k = "num"
              /\ ranked[i].avg.n * CountOf(data, ranked[i].sym)
                    = SumOf(data, ranked[i].sym) * ranked[i].avg.d
        /\ Len(scores) <= TopN =>
              WeightedTotal(ranked, data, Len(ranked)) = AlertTotalUpTo(data, Len(data))
        /\ ( /\ AlertKeys(data) = {<<"BTC">>}
             /\ CountOf(data, <<"BTC">>) = 2
             /\ SumOf(data, <<"BTC">>) = 40 ) =>
                /\ Len(ranked) = 1
                /\ ranked[1].sym = <<"BTC">>
                /\ NumEq(ranked[1].avg, JsNum(20, 1))
                /\ topCoins.items = <<[sym |-> <<"BTC">>, avg |-> JsNum(200, 10)]>>
                /\ Len(scores[1].arr) = 2

\* The alerts are BTC 1.0 and BTC 3.0, and the page shows BTC 2.00.
C4_Witness ==
    /\ RankedDone
    /\ [i \in 1..Len(Alerts(data)) |-> Alerts(data)[i].signal_score]
          = <<JsNum(10, 1), JsNum(30, 1)>>
    /\ AlertKeys(data) = {<<"BTC">>}
    /\ topCoins.items = <<[sym |-> <<"BTC">>, avg |-> JsNum(200, 10)]>>

(* ------------------------------- C1 ----------------------------------- *)
ThreeLiterals == {<<"True">>, <<"true">>, <<"TRUE">>}
RawCell(i, name) == Get(Items(variant, rows)[i], name)
\* Some record the page read has one of the three literals for alert_sent.
HasAlertRecord ==
    \E i \in 1..Len(Items(variant, rows)) :
        RawCell(i, "alert_sent").def /\ RawCell(i, "alert_sent").t \in ThreeLiterals

\* C1: the normalized alert_sent of every record is a boolean, true exactly
\* when the raw value is "True", "true" or "TRUE" and false for every other
\* value and for a missing one; so the alert-only subset holds exactly the
\* records of those three values.
C1_AlertSentThreeLiterals ==
    Converted =>
        \A i \in 1..Len(data) :
            /\ data[i].alert_sent \in BOOLEAN
            /\ data[i].alert_sent
                  <=> (RawCell(i, "alert_sent").def
                       /\ RawCell(i, "alert_sent").t \in ThreeLiterals)

(* ------------------------------- C2 ----------------------------------- *)
\* C2: in every record the normalized signal_score is the parsed number, or 0
\* when the raw value is missing or does not parse; rsi_15m and heat_index are
\* each the parsed number (a parsed 0 stays 0), and null when and only when
\* the raw value is missing or does not parse.
C2_NullPolicy ==
    (Converted /\ ConvertsRsiHeat(variant)) =>
        \A i \in 1..Len(data) :
            LET score == parseFloat(RawCell(i, "signal_score"))
                rsi == parseFloat(RawCell(i, "rsi_15m"))
                heat == parseFloat(RawCell(i, "heat_index"))
            IN  /\ data[i].signal_score = IF score.k = "num" THEN score ELSE JsNum(0, 1)
                /\ data[i].rsi_15m = IF rsi.k = "num" THEN rsi ELSE JsNull
                /\ data[i].heat_index = IF heat.k = "num" THEN heat ELSE JsNull

(* ------------------------------- C5 ----------------------------------- *)
Undefined_numbers == {"NaN", "Infinity", "-Infinity"}
\* C5: no statistics panel shows the mean of no values (NaN) or the minimum
\* or maximum of no values (Infinity, -Infinity): a column with no non-null
\* value in the subset gives "not applicable".
C5_NoUndefinedStatistics ==
    \A p \in {"score", "rsi", "heat"} :
        panels[p].shown =>
            /\ panels[p].avg.k \notin Undefined_numbers
            /\ panels[p].min.k \notin Undefined_numbers
            /\ panels[p].max.k \notin Undefined_numbers

(* ------------------------------- C6 ----------------------------------- *)
\* The text of a file after its first line.
AfterHeader(t) ==
    IF \A i \in 1..Len(t) : t[i] # NL THEN <<>>
    ELSE LET i == CHOOSE i \in 1..Len(t) : t[i] = NL /\ \A j \in 1..(i - 1) : t[j] # NL
         IN  SubSeq(t, i + 1, Len(t))

\* C6: once a run whose log exists has completed, the artifact holds one data
\* row for each line the run parsed, in log order, and nothing else: no data
\* row at all after a run that parsed no line.
C6_ArtifactIsLastRun ==
    pyOut \in {"empty", "complete"} =>
        AfterHeader(artifact.content) = CsvLines(CleanData(raw), CsvColumns(raw))

(* ------------------------------- C8 ----------------------------------- *)
\* The values of a record of the cleaned dataset, as the data model types them.
OrigAlert(x) == (x.k = "bool" /\ x.v = 1) \/ (x.k = "str" /\ x.s \in ThreeLiterals)
OrigScore(x) == IF x.k = "num" THEN JsNum(x.v, 1) ELSE JsNum(0, 1)
OrigSymbol(x) == IF x.k = "str" THEN Str(x.s) ELSE Str(<<>>)

\* C8: the items a page makes of the exported artifact are as many as the
\* records of the cleaned dataset and in their order, each with the symbol,
\* the alert_sent and the signal_score of its record.
C8_RoundTrip ==
    (pyOut = "complete" /\ artifact.exists /\ Converted) =>
        /\ Len(data) = Len(raw)
        /\ \A i \in 1..Len(raw) :
              /\ i <= Len(data)
              /\ data[i].symbol = OrigSymbol(CleanRow(raw[i])["symbol"])
              /\ data[i].alert_sent = OrigAlert(CleanRow(raw[i])["alert_sent"])
              /\ data[i].signal_score = OrigScore(CleanRow(raw[i])["signal_score"])

(* ------------------------------- C9 ----------------------------------- *)
MissingStatuses ==
    {StatusNotOk[v] : v \in {v \in Variants : ChecksOk(v)}}
        \cup {StatusCatch[v] : v \in Variants}
NoAlertsStatuses == {StatusNoAlerts[v] : v \in {v \in Variants : GuardsNoAlerts(v)}}
LoadedStatuses == {StatusLoaded[v] : v \in Variants}

\* C9: when buildDashboard has finished, a missing artifact (fetch not ok or
\* failed) has left an "artifact missing" status, an artifact with no alert
\* record a "no alerts" status, and an artifact with an alert record the
\* "loaded" status.
C9_StatusTellsOutcome ==
    pc = "done" =>
        /\ (~artifact.exists \/ rows = <<>>) => status \in MissingStatuses
        /\ (artifact.exists /\ rows # <<>> /\ ~HasAlertRecord)
              => status \in NoAlertsStatuses
        /\ (artifact.exists /\ rows # <<>> /\ HasAlertRecord)
              => status \in LoadedStatuses

(* ------------------------------- C10 ---------------------------------- *)
\* C10: for a dataset with no alert record the ranking ends without an error,
\* the ranked result is empty, and the page presents it as "no alerts".
C10_NoAlertsState ==
    (artifact.exists /\ Converted /\ ~HasAlertRecord) =>
        /\ ranked = <<>>
        /\ topCoins = NoAlertsHtml

(* ------------------------------- C11 ---------------------------------- *)
FinalStatuses == MissingStatuses \cup NoAlertsStatuses \cup LoadedStatuses

\* C11: every run of buildDashboard that has written the "Loading" status
\* later writes a final status (an error status or a loaded status), whatever
\* the fetch of the artifact and the fetch of the momentum summary answer.
C11_StatusLeavesLoading ==
    (pc = "loadCSV" /\ status = StatusLoading[variant]) ~> (status \in FinalStatuses)

====
